---- MODULE Spec2Model ----
(***************************************************************************)
(* A model of src/main.ts, the reverse proxy that presents the Ory        *)
(* identity service under the application's own origin.                   *)
(*                                                                         *)
(* Strings are sequences of tokens.  A token stands for one character     *)
(* ("u", ".", ":", ",", " ") or for a run of characters that is never     *)
(* split or partially matched by the inputs considered here ("https://",  *)
(* "Domain=", "text/").  Header collections map a lower-cased header name *)
(* to the list of its values, as the Headers class of the Fetch API does; *)
(* an absent header is the empty list.  An optional object (a body, a     *)
(* request, a response) is a list of length 0 or 1.                       *)
(***************************************************************************)
EXTENDS Integers, Sequences, FiniteSets, TLC

VARIABLES cfg, pc, req, proxyReq, calls, fetchRedirect, upRes, outRes

vars == <<cfg, pc, req, proxyReq, calls, fetchRedirect, upRes, outRes>>

(***************************************************************************)
(* Bounds of the model                                                     *)
(***************************************************************************)
\* longest text (body, Location value), in chunks
MaxChunks == 3
\* most Set-Cookie entries of one upstream response
MaxCookies == 2

(***************************************************************************)
(* String primitives of the JavaScript runtime, as the program uses them   *)
(***************************************************************************)
\* s.startsWith(prefix)
StartsWith(s, prefix) ==
  /\ Len(prefix) <= Len(s)
  /\ SubSeq(s, 1, Len(prefix)) = prefix

\* pat occurs in s at position i
MatchAt(s, pat, i) ==
  /\ i + Len(pat) - 1 <= Len(s)
  /\ SubSeq(s, i, i + Len(pat) - 1) = pat

\* s.includes(pat), pat not empty
Includes(s, pat) == \E i \in 1..Len(s) : MatchAt(s, pat, i)

RECURSIVE ReplaceFrom(_, _, _, _)
ReplaceFrom(s, pat, rep, i) ==
  IF i > Len(s) THEN <<>>
  ELSE IF MatchAt(s, pat, i)
       THEN rep \o ReplaceFrom(s, pat, rep, i + Len(pat))
       ELSE <<s[i]>> \o ReplaceFrom(s, pat, rep, i + 1)

\* s.replaceAll(pat, rep) with a string pattern: every occurrence, found left
\* to right without overlap (pat is never empty here and rep holds no "$")
ReplaceAll(s, pat, rep) == ReplaceFrom(s, pat, rep, 1)

\* s.replace(pat, rep) with a string pattern: the first occurrence only
Replace(s, pat, rep) ==
  IF \E i \in 1..Len(s) : MatchAt(s, pat, i)
  THEN LET i == CHOOSE k \in 1..Len(s) :
                    MatchAt(s, pat, k) /\ \A j \in 1..(k - 1) : ~MatchAt(s, pat, j)
       IN SubSeq(s, 1, i - 1) \o rep \o SubSeq(s, i + Len(pat), Len(s))
  ELSE s

RECURSIVE TrimStart(_)
\* s.trimStart()
TrimStart(s) ==
  IF s # <<>> /\ Head(s) = " " THEN TrimStart(Tail(s)) ELSE s

RECURSIVE SplitFrom(_, _, _, _)
SplitFrom(s, sep, i, cur) ==
  IF i > Len(s) THEN <<cur>>
  ELSE IF s[i] = sep
       THEN <<cur>> \o SplitFrom(s, sep, i + 1, <<>>)
       ELSE SplitFrom(s, sep, i + 1, Append(cur, s[i]))

\* s.split(sep) for a one-character separator: always at least one piece
Split(s, sep) == SplitFrom(s, sep, 1, <<>>)

RECURSIVE Join(_, _)
\* pieces.join(sep)
Join(pieces, sep) ==
  IF pieces = <<>> THEN <<>>
  ELSE IF Len(pieces) = 1 THEN pieces[1]
       ELSE pieces[1] \o sep \o Join(Tail(pieces), sep)

\* pieces.slice(-2)
SliceLast2(pieces) ==
  IF Len(pieces) <= 2 THEN pieces
  ELSE SubSeq(pieces, Len(pieces) - 1, Len(pieces))

\* the escape of one character by encodeURIComponent
EncodeChar(t) ==
  CASE t = ":" -> <<"%", "3", "A">>
    [] t = "," -> <<"%", "2", "C">>
    [] t = ";" -> <<"%", "3", "B">>
    [] t = "=" -> <<"%", "3", "D">>
    [] t = " " -> <<"%", "2", "0">>
    [] t = "/" -> <<"%", "2", "F">>
    [] OTHER -> <<t>>

RECURSIVE EncodeURIComponent(_)
EncodeURIComponent(s) ==
  IF s = <<>> THEN <<>> ELSE EncodeChar(Head(s)) \o EncodeURIComponent(Tail(s))

\* the UTF-8 decoding of one byte run: an ill-formed run becomes U+FFFD
DecodeByte(t) == IF t = "<FF>" THEN "<U+FFFD>" ELSE t

\* Response.text(): UTF-8 decode, a leading byte order mark is dropped
Utf8Decode(bytes) ==
  LET noBom == IF bytes # <<>> /\ Head(bytes) = "<BOM>" THEN Tail(bytes) ELSE bytes
  IN [i \in 1..Len(noBom) |-> DecodeByte(noBom[i])]

(***************************************************************************)
(* URL: [scheme, hostname, port, pathname, search]; port <<>> is the       *)
(* scheme's default port                                                   *)
(***************************************************************************)
DefaultPort(scheme) == IF scheme = "https://" THEN <<"443">> ELSE <<"80">>

\* the first position of s holding a token of set, or Len(s) + 1
FirstOf(s, set) ==
  IF \E i \in 1..Len(s) : s[i] \in set
  THEN CHOOSE i \in 1..Len(s) : s[i] \in set /\ \A j \in 1..(i - 1) : s[j] \notin set
  ELSE Len(s) + 1

\* new URL(s) for an absolute http(s) URL
ParseURL(s) ==
  LET rest == Tail(s)
      a == FirstOf(rest, {"/", "?"})
      authority == SubSeq(rest, 1, a - 1)
      after == SubSeq(rest, a, Len(rest))
      q == FirstOf(after, {"?"})
      c == FirstOf(authority, {":"})
      rawPort == SubSeq(authority, c + 1, Len(authority))
  IN [scheme |-> Head(s),
      hostname |-> SubSeq(authority, 1, c - 1),
      port |-> IF rawPort = DefaultPort(Head(s)) THEN <<>> ELSE rawPort,
      pathname |-> IF q = 1 THEN <<"/">> ELSE SubSeq(after, 1, q - 1),
      search |-> SubSeq(after, q, Len(after))]

\* url.host: the hostname, and the port when it is not the default one
Host(url) ==
  IF url.port = <<>> THEN url.hostname ELSE url.hostname \o <<":">> \o url.port

\* url.origin
Origin(url) == <<url.scheme>> \o Host(url)

\* url.href
Href(url) == <<url.scheme>> \o Host(url) \o url.pathname \o url.search

\* url.hostname = h: ignored when h is empty or holds a port; the port stays
SetHostname(url, h) ==
  IF h = <<>> \/ ":" \in {h[i] : i \in 1..Len(h)} THEN url
  ELSE [url EXCEPT !.hostname = h]

(***************************************************************************)
(* Headers                                                                 *)
(***************************************************************************)
HeadersHas(h, name) == h[name] # <<>>

\* headers.get(name) of a present header: its values joined by ", "
HeadersGet(h, name) == Join(h[name], <<",", " ">>)

HeadersSet(h, name, value) == [h EXCEPT ![name] = <<value>>]

HeadersDelete(h, name) == [h EXCEPT ![name] = <<>>]

(***************************************************************************)
(* Configuration (newConfig): the public origin, the upstream host and the *)
(* API key.  The configurations explored:                                  *)
(*   1. https://a.e.o  in front of u.e.c   (the spec's example)            *)
(*   2. https://a.e.c  in front of u.e.c   (same registrable domain)       *)
(*   3. https://me.c   in front of u.e.c   (public host holds "e.c")       *)
(*   4. http://l:8     in front of u.e.c   (public origin with a port)     *)
(*   5. https://u.e.c.o in front of u.e.c  (public origin holds upstream's)*)
(*   6. https://a.e.o  in front of e.c     (two-label upstream host)       *)
(***************************************************************************)
Config(appOrigin, projectHost) ==
  [appOrigin |-> appOrigin, projectHost |-> projectHost, apiKey |-> <<"k">>]

Configs ==
  { Config(<<"https://", "a", ".", "e", ".", "o">>, <<"u", ".", "e", ".", "c">>),
    Config(<<"https://", "a", ".", "e", ".", "c">>, <<"u", ".", "e", ".", "c">>),
    Config(<<"https://", "m", "e", ".", "c">>, <<"u", ".", "e", ".", "c">>),
    Config(<<"http://", "l", ":", "8">>, <<"u", ".", "e", ".", "c">>),
    Config(<<"https://", "u", ".", "e", ".", "c", ".", "o">>, <<"u", ".", "e", ".", "c">>),
    Config(<<"https://", "a", ".", "e", ".", "o">>, <<"e", ".", "c">>) }

\* upstreamURL of newResponseRewriter
UpstreamURL(upstreamHost) == ParseURL(<<"https://">> \o upstreamHost)

(***************************************************************************)
(* rewriteBody                                                             *)
(***************************************************************************)
\* the mutant of rewriteBody: replace, not replaceAll
rewriteBodyFirstOnly(res, upstreamHost, newOrigin) ==
  IF res.body = <<>> THEN <<>>
  ELSE IF \/ ~HeadersHas(res.headers, "content-type")
          \/ ~StartsWith(HeadersGet(res.headers, "content-type"), <<"text/">>)
       THEN res.body
       ELSE <<Replace(Utf8Decode(res.body[1]), upstreamHost, newOrigin)>>

rewriteBody(res, upstreamHost, newOrigin) ==
  IF res.body = <<>> THEN <<>>
  ELSE IF \/ ~HeadersHas(res.headers, "content-type")
          \/ ~StartsWith(HeadersGet(res.headers, "content-type"), <<"text/">>)
       THEN res.body
       ELSE <<ReplaceAll(Utf8Decode(res.body[1]), upstreamHost, newOrigin)>>

(***************************************************************************)
(* rewriteCookieDomain                                                     *)
(***************************************************************************)
\* the mutant of cookieRewriters: narrowest first
cookieRewritersNarrowFirst(k, url) ==
  IF k = 1 THEN Join(SliceLast2(Split(Host(url), ".")), <<".">>) ELSE Host(url)

\* cookieRewriters[k - 1](url): the full host, then its last two labels
cookieRewriters(k, url) ==
  IF k = 1 THEN Host(url) ELSE Join(SliceLast2(Split(Host(url), ".")), <<".">>)

RECURSIVE ReduceRewriters(_, _, _, _)
\* cookieRewriters.reduce(..., cookie), from rewriter k on
ReduceRewriters(result, k, upstreamURL, newURL) ==
  IF k > 2 THEN result
  ELSE ReduceRewriters(
         ReplaceAll(result,
                    EncodeURIComponent(cookieRewriters(k, upstreamURL)),
                    EncodeURIComponent(cookieRewriters(k, newURL))),
         k + 1, upstreamURL, newURL)

\* the mutant of RewriteCookie: the piece is not trimmed
RewriteCookieNoTrim(cookie, upstreamURL, newURL) ==
  ReduceRewriters(cookie, 1, upstreamURL, newURL)

\* the value appended for one piece of the split header
RewriteCookie(cookie, upstreamURL, newURL) ==
  ReduceRewriters(TrimStart(cookie), 1, upstreamURL, newURL)

\* the mutant of rewriteCookieDomain: the original header is not deleted
rewriteCookieDomainNoDelete(headers, upstreamURL, newURL) ==
  IF ~HeadersHas(headers, "set-cookie") THEN headers
  ELSE LET cookies == Split(HeadersGet(headers, "set-cookie"), ",")
       IN [headers EXCEPT !["set-cookie"] =
             @ \o [i \in 1..Len(cookies) |->
                     RewriteCookie(cookies[i], upstreamURL, newURL)]]

rewriteCookieDomain(headers, upstreamURL, newURL) ==
  IF ~HeadersHas(headers, "set-cookie") THEN headers
  ELSE LET cookies == Split(HeadersGet(headers, "set-cookie"), ",")
       IN [HeadersDelete(headers, "set-cookie") EXCEPT !["set-cookie"] =
             @ \o [i \in 1..Len(cookies) |->
                     RewriteCookie(cookies[i], upstreamURL, newURL)]]

(***************************************************************************)
(* rewriteLocation                                                         *)
(***************************************************************************)
rewriteLocation(headers, upstreamHost, newOrigin) ==
  IF ~HeadersHas(headers, "location") THEN headers
  ELSE HeadersSet(headers, "location",
                  Replace(HeadersGet(headers, "location"), upstreamHost, newOrigin))

(***************************************************************************)
(* newRequestRewriter                                                      *)
(***************************************************************************)
newRequestRewriter(c, r) ==
  LET url == SetHostname(r.url, c.projectHost)
      h1 == HeadersSet(r.headers, "ory-no-custom-domain-redirect", <<"true">>)
      h2 == HeadersSet(h1, "ory-base-url-rewrite", c.appOrigin)
      h3 == HeadersSet(h2, "ory-base-url-rewrite-token", c.apiKey)
      h4 == HeadersSet(h3, "ory-network-ingress", <<"T">>)
  IN [url |-> url, headers |-> h4]

(***************************************************************************)
(* newResponseRewriter: its three sub-steps, and their composition         *)
(***************************************************************************)
\* const body = await rewriteBody(...); const res = new Response(body, r)
StepBody(upstreamHost, newOrigin, r) ==
  [r EXCEPT !.body = rewriteBody(r, Origin(UpstreamURL(upstreamHost)), newOrigin)]

\* if (res.headers.has("Set-Cookie")) rewriteCookieDomain(...)
StepCookie(upstreamHost, newOrigin, res) ==
  IF HeadersHas(res.headers, "set-cookie")
  THEN [res EXCEPT !.headers =
          rewriteCookieDomain(@, UpstreamURL(upstreamHost), ParseURL(newOrigin))]
  ELSE res

\* if (res.headers.has("Location")) rewriteLocation(...)
StepLocation(upstreamHost, newOrigin, res) ==
  IF HeadersHas(res.headers, "location")
  THEN [res EXCEPT !.headers =
          rewriteLocation(@, Origin(UpstreamURL(upstreamHost)), newOrigin)]
  ELSE res

newResponseRewriter(upstreamHost, newOrigin, r) ==
  StepLocation(upstreamHost, newOrigin,
    StepCookie(upstreamHost, newOrigin,
      StepBody(upstreamHost, newOrigin, r)))

(***************************************************************************)
(* Inputs: the inbound requests and the upstream responses explored        *)
(***************************************************************************)
RequestHeaderNames ==
  {"ory-no-custom-domain-redirect", "ory-base-url-rewrite",
   "ory-base-url-rewrite-token", "ory-network-ingress", "accept"}

ControlHeaderNames == RequestHeaderNames \ {"accept"}

\* no header at all; a browser's; one that already carries the control headers
InboundHeaders ==
  { [n \in RequestHeaderNames |-> <<>>],
    [n \in RequestHeaderNames |-> IF n = "accept" THEN <<<<"*/*">>>> ELSE <<>>],
    [n \in RequestHeaderNames |->
       IF n = "accept" THEN <<<<"*/*">>>> ELSE <<<<"evil">>, <<"false">>>>] }

Requests(c) ==
  { [url |-> [scheme |-> sc, hostname |-> hn, port |-> po, pathname |-> pa,
              search |-> se],
     headers |-> h] :
      sc \in {"https://", "http://"},
      hn \in {ParseURL(c.appOrigin).hostname, <<"l">>},
      po \in {<<>>, <<"8">>},
      pa \in {<<"/">>, <<"/", "ui">>, <<"/", "x">>},
      se \in {<<>>, <<"?", "q">>},
      h \in InboundHeaders }

ResponseHeaderNames == {"content-type", "set-cookie", "location", "x-other"}

ContentTypes ==
  { <<>>,
    <<<<"text/", "html", "; charset=utf-8">>>>,
    <<<<"text/", "plain", "; charset=iso-8859-1">>>>,
    <<<<"Text/", "html">>>>,
    <<<<"application/", "octet-stream">>>> }

RECURSIVE Texts(_, _)
\* the concatenations of at most n chunks
Texts(chunks, n) ==
  IF n = 0 THEN {<<>>}
  ELSE LET shorter == Texts(chunks, n - 1)
       IN shorter \cup {c \o t : c \in chunks, t \in shorter}

RECURSIVE Lists(_, _)
\* the lists of at most n elements of set
Lists(set, n) ==
  IF n = 0 THEN {<<>>}
  ELSE LET shorter == Lists(set, n - 1)
       IN shorter \cup {<<x>> \o l : x \in set, l \in shorter}

\* the last two DNS labels of a host: what follows its last dot but one
RegistrableDomain(h) ==
  LET dots == {i \in 1..Len(h) : h[i] = "."}
  IN IF Cardinality(dots) < 2 THEN h
     ELSE LET d == CHOOSE i \in dots : Cardinality({j \in dots : j > i}) = 1
          IN SubSeq(h, d + 1, Len(h))

\* the upstream origin string, https://<upstreamHost>
UpstreamOrigin(c) == <<"https://">> \o c.projectHost

UpstreamHostOf(c) == c.projectHost

UpstreamDomainOf(c) == RegistrableDomain(c.projectHost)

BodyChunks(c) == {UpstreamOrigin(c), <<"x">>, <<"<FF>">>, <<"<BOM>">>}

LocationChunks(c) == {UpstreamOrigin(c), <<"/", "cb", "?", "r=">>}

\* a cookie with a Domain attribute
DomainCookie(domain) == <<"s", "=", "1", ";", " ", "Domain=">> \o domain

Cookies(c) ==
  { DomainCookie(UpstreamHostOf(c)),
    DomainCookie(UpstreamDomainOf(c)),
    DomainCookie(<<"e", ".">> \o UpstreamDomainOf(c)),
    <<"t", "=", "2">>,
    <<"e", "=", "3", ";", " ", "Expires=", "Wed", ",", " ", "21 Oct">> }

Response(status, body, contentType, cookies, location) ==
  [status |-> status,
   body |-> body,
   headers |-> [n \in ResponseHeaderNames |->
                  CASE n = "content-type" -> contentType
                    [] n = "set-cookie" -> cookies
                    [] n = "location" -> location
                    [] OTHER -> <<<<"v">>>>]]

\* responses that vary one region at a time
BodyResponses(c) ==
  { Response(200, b, ct, <<>>, <<>>) :
      b \in {<<>>} \cup {<<t>> : t \in Texts(BodyChunks(c), MaxChunks)},
      ct \in ContentTypes }

CookieResponses(c) ==
  { Response(200, <<>>, <<>>, ks, <<>>) : ks \in Lists(Cookies(c), MaxCookies) }

LocationResponses(c) ==
  { Response(302, <<>>, <<>>, <<>>, <<l>>) : l \in Texts(LocationChunks(c), MaxChunks) }

\* responses that vary all regions together
MixedResponses(c) ==
  { Response(st, b, ct, ks, l) :
      st \in {200, 302},
      b \in {<<>>, <<UpstreamOrigin(c) \o <<"x">> \o UpstreamOrigin(c)>>},
      ct \in {<<<<"text/", "html", "; charset=utf-8">>>>,
              <<<<"application/", "octet-stream">>>>},
      ks \in {<<>>, <<DomainCookie(UpstreamHostOf(c)), <<"t", "=", "2">>>>},
      l \in {<<>>, <<UpstreamOrigin(c) \o <<"/", "cb", "?", "r=">>>>} }

Responses(c) ==
  BodyResponses(c) \cup CookieResponses(c) \cup LocationResponses(c)
    \cup MixedResponses(c)

(***************************************************************************)
(* newHandler: one request at a time through the handler.  pc is the       *)
(* handler's position: "idle", "handling" (entered), "fetching" (awaiting  *)
(* fetch), "fetched" (fetch resolved, rewriteResponse not yet run),        *)
(* "returned" (a response was returned), "failed" (the promise rejected).  *)
(***************************************************************************)
\* the mutant of rootRedirect: the query string is dropped
rootRedirectNoQuery(url) ==
  [status |-> 303,
   body |-> <<>>,
   headers |-> [n \in ResponseHeaderNames |->
                  IF n = "location"
                  THEN <<Href([url EXCEPT !.pathname = <<"/", "ui">>, !.search = <<>>])>>
                  ELSE <<>>]]

\* Response.redirect(url, 303) after url.pathname = "/ui"
rootRedirect(url) ==
  [status |-> 303,
   body |-> <<>>,
   headers |-> [n \in ResponseHeaderNames |->
                  IF n = "location"
                  THEN <<Href([url EXCEPT !.pathname = <<"/", "ui">>])>>
                  ELSE <<>>]]

\* Deno.serve calls the handler with the next request
Receive ==
  /\ pc \in {"idle", "returned", "failed"}
  /\ \E r \in Requests(cfg) : req' = <<r>>
  /\ pc' = "handling"
  /\ proxyReq' = <<>>
  /\ calls' = 0
  /\ fetchRedirect' = "none"
  /\ upRes' = <<>>
  /\ outRes' = <<>>
  /\ UNCHANGED cfg

\* if (url.pathname === "/") return Response.redirect(url, 303)
RootShortcut ==
  /\ pc = "handling"
  /\ req[1].url.pathname = <<"/">>
  /\ outRes' = <<rootRedirect(req[1].url)>>
  /\ pc' = "returned"
  /\ UNCHANGED <<cfg, req, proxyReq, calls, fetchRedirect, upRes>>

\* const proxyReq = rewriteRequest(req); fetch(proxyReq, { redirect: "manual" })
SendUpstream ==
  /\ pc = "handling"
  /\ req[1].url.pathname # <<"/">>
  /\ proxyReq' = <<newRequestRewriter(cfg, req[1])>>
  /\ calls' = calls + 1
  /\ fetchRedirect' = "manual"
  /\ pc' = "fetching"
  /\ UNCHANGED <<cfg, req, upRes, outRes>>

\* the fetch promise resolves with the upstream response
FetchResolve ==
  /\ pc = "fetching"
  /\ \E r \in MixedResponses(cfg) : upRes' = <<r>>
  /\ pc' = "fetched"
  /\ UNCHANGED <<cfg, req, proxyReq, calls, fetchRedirect, outRes>>

\* the mutant of FetchReject: the call is made again
FetchRejectRetry ==
  /\ pc = "fetching"
  /\ calls < 2
  /\ calls' = calls + 1
  /\ UNCHANGED <<cfg, pc, req, proxyReq, fetchRedirect, upRes, outRes>>

\* the fetch promise rejects: the handler's promise rejects, nothing is caught
FetchReject ==
  /\ pc = "fetching"
  /\ pc' = "failed"
  /\ UNCHANGED <<cfg, req, proxyReq, calls, fetchRedirect, upRes, outRes>>

\* return rewriteResponse(res)
RewriteResponse ==
  /\ pc = "fetched"
  /\ outRes' = <<newResponseRewriter(cfg.projectHost, cfg.appOrigin, upRes[1])>>
  /\ pc' = "returned"
  /\ UNCHANGED <<cfg, req, proxyReq, calls, fetchRedirect, upRes>>

Init ==
  /\ cfg \in Configs
  /\ pc = "idle"
  /\ req = <<>>
  /\ proxyReq = <<>>
  /\ calls = 0
  /\ fetchRedirect = "none"
  /\ upRes = <<>>
  /\ outRes = <<>>

Next ==
  \/ Receive
  \/ RootShortcut
  \/ SendUpstream
  \/ FetchResolve
  \/ FetchReject
  \/ RewriteResponse

Spec == Init /\ [][Next]_vars

(***************************************************************************)
(* The response rewriter alone, applied to every upstream response of      *)
(* Responses                                                               *)
(***************************************************************************)
InitRewriter ==
  /\ cfg \in Configs
  /\ pc = "fetched"
  /\ req = <<>>
  /\ proxyReq = <<>>
  /\ calls = 1
  /\ fetchRedirect = "manual"
  /\ upRes \in {<<r>> : r \in Responses(cfg)}
  /\ outRes = <<>>

NextRewriter == RewriteResponse

SpecRewriter == InitRewriter /\ [][NextRewriter]_vars

(***************************************************************************)
(* Properties of the handler (Spec)                                        *)
(***************************************************************************)
IsRoot == req # <<>> /\ req[1].url.pathname = <<"/">>

\* the value each control header must carry
ControlValue(n) ==
  CASE n = "ory-no-custom-domain-redirect" -> <<"true">>
    [] n = "ory-base-url-rewrite" -> cfg.appOrigin
    [] n = "ory-base-url-rewrite-token" -> cfg.apiKey
    [] n = "ory-network-ingress" -> <<"T">>

\* C1: for every inbound request, whatever its scheme, host, port, path, query
\* and headers, the outbound request's URL host is upstreamHost exactly and
\* each of the four control headers carries its one specified value, any
\* inbound value of the same name being overwritten.
C1_RoundTripHeaderInjection ==
  proxyReq # <<>> =>
    /\ Host(proxyReq[1].url) = cfg.projectHost
    /\ \A n \in ControlHeaderNames : proxyReq[1].headers[n] = <<ControlValue(n)>>

\* C2 as stated: a request to path "/" is answered 303 with Location equal to
\* <publicOrigin>/ui, whatever its host, port, scheme and query string.
C2_RootShortcutToPublicOrigin ==
  (pc = "returned" /\ IsRoot) =>
    /\ outRes[1].status = 303
    /\ outRes[1].headers["location"] = <<cfg.appOrigin \o <<"/", "ui">>>>

\* C2 amended: a request to path "/" is answered 303, without a body, with
\* Location equal to the inbound URL with its path replaced by /ui: the
\* request's own scheme, host and port, then /ui, then the request's query
\* string.  That is <publicOrigin>/ui when the request was addressed to the
\* public origin and has no query string.
C2_RootShortcutToRequestOrigin ==
  (pc = "returned" /\ IsRoot) =>
    LET url == req[1].url
        portPart == IF url.port = <<>> THEN <<>> ELSE <<":">> \o url.port
    IN /\ outRes[1].status = 303
       /\ outRes[1].body = <<>>
       /\ outRes[1].headers["location"] =
            <<<<url.scheme>> \o url.hostname \o portPart \o <<"/", "ui">> \o url.search>>
       /\ (<<url.scheme>> \o url.hostname \o portPart = cfg.appOrigin /\ url.search = <<>>)
            => outRes[1].headers["location"] = <<cfg.appOrigin \o <<"/", "ui">>>>

\* a root request with a query string, addressed to another origin than the
\* public one, has been answered
C2_Witness ==
  /\ pc = "returned"
  /\ IsRoot
  /\ req[1].url.search # <<>>
  /\ Origin(req[1].url) # cfg.appOrigin

\* C3: the upstream is called 0 times for path "/" and exactly once otherwise;
\* the call is made with redirect "manual", with the request the request
\* rewriter produced, before the response rewriter runs; a response is
\* returned only once the response rewriter has completed, and a failed call
\* yields no response.
C3_UpstreamCallDiscipline ==
  /\ calls \in {0, 1}
  /\ IsRoot => (calls = 0 /\ proxyReq = <<>> /\ upRes = <<>>)
  /\ (pc \in {"returned", "failed"} /\ ~IsRoot) => calls = 1
  /\ (pc \in {"fetching", "fetched"}) => calls = 1
  /\ calls = 1 =>
       /\ fetchRedirect = "manual"
       /\ proxyReq = <<newRequestRewriter(cfg, req[1])>>
  /\ upRes # <<>> => calls = 1
  /\ outRes # <<>> <=> pc = "returned"
  /\ (outRes # <<>> /\ ~IsRoot) =>
       /\ upRes # <<>>
       /\ outRes = <<newResponseRewriter(cfg.projectHost, cfg.appOrigin, upRes[1])>>
  /\ pc = "failed" => (outRes = <<>> /\ upRes = <<>>)

\* a proxied request has been answered after its one upstream call
C3_Witness ==
  /\ pc = "returned"
  /\ ~IsRoot
  /\ calls = 1
  /\ upRes # <<>>
  /\ outRes # <<>>

(***************************************************************************)
(* Properties of the response rewriter (SpecRewriter)                      *)
(***************************************************************************)
Rewritten == pc = "returned" /\ upRes # <<>> /\ outRes # <<>>

PublicHost == Host(ParseURL(cfg.appOrigin))

\* a media type of the text family; type names are not case-sensitive
IsTextFamily(contentType) ==
  contentType # <<>> /\ Head(contentType[1]) \in {"text/", "Text/", "TEXT/"}

\* the cookies of the upstream Set-Cookie value: its comma-separated pieces
UpstreamCookies == Split(HeadersGet(upRes[1].headers, "set-cookie"), ",")

\* C4: a null body stays null; with Content-Type absent or not of the text
\* family the body is unchanged; with a text-family Content-Type the body is
\* the upstream body with every occurrence of the upstream origin replaced by
\* the public origin and no other change.
C4_BodyRewriteScope ==
  Rewritten =>
    LET up == upRes[1]
        out == outRes[1]
        ct == up.headers["content-type"]
    IN /\ up.body = <<>> => out.body = <<>>
       /\ (up.body # <<>> /\ ~IsTextFamily(ct)) => out.body = up.body
       /\ (up.body # <<>> /\ IsTextFamily(ct)) =>
            out.body = <<ReplaceAll(up.body[1], UpstreamOrigin(cfg), cfg.appOrigin)>>

\* C5: with a Location header, the outbound Location is the upstream value
\* with every occurrence of the upstream origin replaced by the public
\* origin; without one, the outbound response has no Location header.
C5_LocationRewriteAll ==
  Rewritten =>
    LET up == upRes[1].headers["location"]
        out == outRes[1].headers["location"]
    IN IF up = <<>> THEN out = <<>>
       ELSE out = <<ReplaceAll(up[1], UpstreamOrigin(cfg), cfg.appOrigin)>>

\* C6: in every configuration, a cookie whose Domain attribute is the full
\* upstream host comes out with Domain reading exactly the public host (as
\* the full-host pass writes it, URL-encoded): the registrable-domain pass
\* does not alter what the full-host pass produced.
C6_CookieDomainPrecedence ==
  (Rewritten /\ HeadersHas(upRes[1].headers, "set-cookie")) =>
    \A i \in 1..Len(UpstreamCookies) :
      TrimStart(UpstreamCookies[i]) = DomainCookie(cfg.projectHost) =>
        /\ i <= Len(outRes[1].headers["set-cookie"])
        /\ outRes[1].headers["set-cookie"][i] =
             DomainCookie(EncodeURIComponent(PublicHost))

TwoPasses(cookie, second) ==
  ReplaceAll(
    ReplaceAll(TrimStart(cookie), EncodeURIComponent(cfg.projectHost),
               EncodeURIComponent(PublicHost)),
    EncodeURIComponent(RegistrableDomain(cfg.projectHost)),
    EncodeURIComponent(second))

\* C9 as stated: after the full-host pass, every occurrence of the encoded
\* upstream registrable domain is replaced by the encoded full public host,
\* so a cookie with Domain set to the upstream registrable domain ends with
\* Domain equal to the public host.
C9_SecondPassWritesPublicHost ==
  (Rewritten /\ HeadersHas(upRes[1].headers, "set-cookie")) =>
    \A i \in 1..Len(UpstreamCookies) :
      /\ outRes[1].headers["set-cookie"][i] = TwoPasses(UpstreamCookies[i], PublicHost)
      /\ TrimStart(UpstreamCookies[i]) = DomainCookie(RegistrableDomain(cfg.projectHost)) =>
           outRes[1].headers["set-cookie"][i] =
             DomainCookie(EncodeURIComponent(PublicHost))

\* C9 amended: after the full-host pass, every occurrence of the encoded
\* upstream registrable domain is replaced by the encoded registrable domain
\* of the public host (its last two labels, not its full host), so a cookie
\* with Domain set to the upstream registrable domain, when that is not the
\* whole upstream host, ends with Domain equal to the public registrable
\* domain; the full-host pass runs first: a cookie with Domain set to the
\* full upstream host gets the public host, then the second pass over it.
C9_SecondPassWritesPublicDomain ==
  (Rewritten /\ HeadersHas(upRes[1].headers, "set-cookie")) =>
    LET upDomain == RegistrableDomain(cfg.projectHost)
        newDomain == RegistrableDomain(PublicHost)
    IN \A i \in 1..Len(UpstreamCookies) :
         /\ outRes[1].headers["set-cookie"][i] = TwoPasses(UpstreamCookies[i], newDomain)
         /\ (TrimStart(UpstreamCookies[i]) = DomainCookie(upDomain)
               /\ upDomain # cfg.projectHost) =>
              outRes[1].headers["set-cookie"][i] =
                DomainCookie(EncodeURIComponent(newDomain))
         /\ TrimStart(UpstreamCookies[i]) = DomainCookie(cfg.projectHost) =>
              outRes[1].headers["set-cookie"][i] =
                ReplaceAll(DomainCookie(EncodeURIComponent(PublicHost)),
                           EncodeURIComponent(upDomain), EncodeURIComponent(newDomain))

\* a cookie with Domain set to the upstream registrable domain was rewritten,
\* under a public host of more than two labels
C9_Witness ==
  /\ Rewritten
  /\ RegistrableDomain(PublicHost) # PublicHost
  /\ RegistrableDomain(cfg.projectHost) # cfg.projectHost
  /\ upRes[1].headers["set-cookie"] =
       <<DomainCookie(RegistrableDomain(cfg.projectHost)), DomainCookie(cfg.projectHost)>>
  /\ outRes[1].headers["set-cookie"] =
       <<DomainCookie(RegistrableDomain(PublicHost)), DomainCookie(PublicHost)>>

\* body, Set-Cookie entries and Location hold no occurrence of the upstream
\* origin string
NoUpstreamOrigin(r) ==
  /\ r.body # <<>> => ~Includes(r.body[1], UpstreamOrigin(cfg))
  /\ \A k \in 1..Len(r.headers["set-cookie"]) :
       ~Includes(r.headers["set-cookie"][k], UpstreamOrigin(cfg))
  /\ \A k \in 1..Len(r.headers["location"]) :
       ~Includes(r.headers["location"][k], UpstreamOrigin(cfg))

\* C8 as stated: a response whose body, Set-Cookie values and Location hold no
\* occurrence of the upstream origin string comes out identical: same status,
\* body, Set-Cookie entries, Location and other headers.
C8_NoOccurrenceIdentity ==
  (Rewritten /\ NoUpstreamOrigin(upRes[1])) => outRes[1] = upRes[1]

\* no Set-Cookie entry holds the encoded upstream registrable domain (nor,
\* then, the encoded upstream host, which ends with it)
NoUpstreamDomainInCookies(r) ==
  \A k \in 1..Len(r.headers["set-cookie"]) :
    ~Includes(r.headers["set-cookie"][k],
              EncodeURIComponent(RegistrableDomain(cfg.projectHost)))

\* the body is read as text: Content-Type starts with lower-case "text/"
ReadAsText(r) ==
  /\ r.body # <<>>
  /\ r.headers["content-type"] # <<>>
  /\ Head(r.headers["content-type"][1]) = "text/"

\* well-formed UTF-8 without a byte order mark
WellFormedUtf8(bytes) ==
  \A i \in 1..Len(bytes) : bytes[i] \notin {"<FF>", "<BOM>"}

\* C8 amended: a response whose body and Location hold no occurrence of the
\* upstream origin string and whose Set-Cookie entries hold no occurrence of
\* the (URL-encoded) upstream registrable domain comes out with the same
\* status, Content-Type, Location and other headers; its body is the upstream
\* body, except that a body under a Content-Type starting with "text/" is its
\* UTF-8 decoding (the same bytes when they are well-formed UTF-8 without a
\* byte order mark); its Set-Cookie entries are the comma-separated pieces of
\* the upstream Set-Cookie value, leading blanks trimmed (the same entries
\* when no upstream entry holds a comma).  With no such text body and no
\* such comma the output is identical to the input.
C8_NoOccurrenceIdentityAmended ==
  (Rewritten /\ NoUpstreamOrigin(upRes[1]) /\ NoUpstreamDomainInCookies(upRes[1])) =>
    LET up == upRes[1]
        out == outRes[1]
        sameBytes == ~ReadAsText(up) \/ WellFormedUtf8(up.body[1])
        noComma == \A k \in 1..Len(up.headers["set-cookie"]) :
                      ~Includes(up.headers["set-cookie"][k], <<",">>)
    IN /\ out.status = up.status
       /\ \A n \in ResponseHeaderNames \ {"set-cookie"} : out.headers[n] = up.headers[n]
       /\ out.body = IF ReadAsText(up) THEN <<Utf8Decode(up.body[1])>> ELSE up.body
       /\ sameBytes => out.body = up.body
       /\ out.headers["set-cookie"] =
            IF up.headers["set-cookie"] = <<>> THEN <<>>
            ELSE [i \in 1..Len(UpstreamCookies) |-> TrimStart(UpstreamCookies[i])]
       /\ noComma => out.headers["set-cookie"] = up.headers["set-cookie"]
       /\ (sameBytes /\ noComma) => out = up

\* a response with two cookies and nothing of the upstream in it was rewritten
C8_Witness ==
  /\ Rewritten
  /\ NoUpstreamOrigin(upRes[1])
  /\ NoUpstreamDomainInCookies(upRes[1])
  /\ Len(upRes[1].headers["set-cookie"]) = 2
  /\ outRes[1] = upRes[1]

\* the three sub-steps under the configuration
B(r) == StepBody(cfg.projectHost, cfg.appOrigin, r)

C(r) == StepCookie(cfg.projectHost, cfg.appOrigin, r)

L(r) == StepLocation(cfg.projectHost, cfg.appOrigin, r)

\* the outbound response is the same in each of the six orders
OrderIndependent(r) ==
  /\ L(C(B(r))) = L(B(C(r)))
  /\ L(C(B(r))) = C(L(B(r)))
  /\ L(C(B(r))) = C(B(L(r)))
  /\ L(C(B(r))) = B(L(C(r)))
  /\ L(C(B(r))) = B(C(L(r)))

\* C10 as stated: each sub-step is idempotent in every configuration and on
\* every input, also when the public origin or host holds the upstream one,
\* and the three sub-steps give the same response in any order.
C10_IdempotentAlways ==
  Rewritten =>
    /\ B(B(upRes[1])) = B(upRes[1])
    /\ C(C(upRes[1])) = C(upRes[1])
    /\ L(L(upRes[1])) = L(upRes[1])
    /\ OrderIndependent(upRes[1])

\* neither string holds the other, and no end of one is a start of the other
NoOverlap(u, p) ==
  /\ ~Includes(u, p)
  /\ ~Includes(p, u)
  /\ \A k \in 1..Len(u) :
       k <= Len(p) =>
         /\ SubSeq(u, Len(u) - k + 1, Len(u)) # SubSeq(p, 1, k)
         /\ SubSeq(p, Len(p) - k + 1, Len(p)) # SubSeq(u, 1, k)

\* the replacement the body and Location rewrites write does not overlap the
\* string they search
OriginsApart == NoOverlap(UpstreamOrigin(cfg), cfg.appOrigin)

\* likewise for the cookie passes: the second pass either changes nothing or
\* writes a string that does not overlap the one it searches
HostsApart ==
  LET upHost == EncodeURIComponent(cfg.projectHost)
      newHost == EncodeURIComponent(PublicHost)
      upDomain == EncodeURIComponent(RegistrableDomain(cfg.projectHost))
      newDomain == EncodeURIComponent(RegistrableDomain(PublicHost))
  IN IF upDomain = newDomain THEN NoOverlap(upHost, newHost)
     ELSE NoOverlap(upDomain, newDomain)

Occurrences(s, pat) == Cardinality({i \in 1..Len(s) : MatchAt(s, pat, i)})

\* the body does not start with two byte order marks (decoding drops one)
OneBomAtMost(r) ==
  r.body # <<>> => ~StartsWith(r.body[1], <<"<BOM>", "<BOM>">>)

\* C10 amended: the text body rewrite is idempotent when the public origin
\* and the upstream origin do not overlap (neither holds the other, no end
\* of one is a start of the other) and the body does not start with two byte
\* order marks; the cookie-domain rewrite is idempotent
\* when the same holds of the strings its passes search and write; the
\* Location rewrite, which replaces the first occurrence only, is idempotent
\* when the origins do not overlap and the value holds at most one
\* occurrence of the upstream origin.  None is idempotent in general when the
\* public origin or host holds the upstream one.  The outbound response is
\* the same whichever order the three sub-steps are applied in.
C10_IdempotentWhenApart ==
  Rewritten =>
    LET up == upRes[1]
    IN /\ (OriginsApart /\ OneBomAtMost(up)) => B(B(up)) = B(up)
       /\ HostsApart => C(C(up)) = C(up)
       /\ (/\ OriginsApart
           /\ \A k \in 1..Len(up.headers["location"]) :
                Occurrences(up.headers["location"][k], UpstreamOrigin(cfg)) <= 1)
            => L(L(up)) = L(up)
       /\ OrderIndependent(up)
       /\ outRes[1] = L(C(B(up)))

\* a response was rewritten in its body, its cookies and its Location, under
\* a configuration whose public and upstream names do not overlap
C10_Witness ==
  /\ Rewritten
  /\ OriginsApart
  /\ HostsApart
  /\ outRes[1].body # upRes[1].body
  /\ outRes[1].headers["set-cookie"] # upRes[1].headers["set-cookie"]
  /\ outRes[1].headers["location"] # upRes[1].headers["location"]

====
